---------------------------- MODULE Spec2Model ----------------------------
(***************************************************************************)
(* Knowledge ingestion and retrieval of the persona chat backend.          *)
(*                                                                         *)
(*   Spec     the relational store (knowledge_modules, knowledge_chunks),  *)
(*            the GraphQL mutations and the runs of the Celery task        *)
(*            process_knowledge_module_task on two worker slots.           *)
(*   SpecRag  the read-only retrieval functions (ContextBuilder and        *)
(*            VectorSearchService) applied to a store drawn from a bounded *)
(*            set of module and chunk tables.                              *)
(*                                                                         *)
(* Text is a sequence of symbols; the tokenizer is a small greedy merge    *)
(* encoder standing for tiktoken (several symbols may form one token, and  *)
(* decoding concatenates the tokens' symbols).                             *)
(***************************************************************************)
EXTENDS Integers, Sequences, FiniteSets, TLC

\* ------------------------------------------------------------------ bounds
\* Cap on the rows of knowledge_chunks (ingestion never deletes a row, so
\* the table grows without limit; the guards of the storing step stop here).
MaxRows == 4
\* Largest token budget (max_context_tokens) a ContextBuilder is built with.
MaxBudget == 3
\* Largest top_k handed to search_similar_chunks.
MaxTopK == 2
\* Longest text (in symbols) chunk_text is called with.
MaxTextLen == 4
\* Largest chunk_size and largest overlap chunk_text is called with.
MaxChunkArg == 3
\* Iterations of chunk_text's while loop that are followed (a call that
\* makes no forward progress iterates without end).
MaxIterations == 5
\* Last value of the clock the SecurityMiddleware is followed to.
MaxTime == 1
\* Largest rate_limit_requests, rate_limit_window and suspicious_threshold a
\* SecurityMiddleware is built with.
MaxRate == 1
MaxWindow == 1
MaxThreshold == 2

\* ------------------------------------------------- deployment configuration
\* settings.CHUNK_SIZE_TOKENS / settings.CHUNK_OVERLAP_TOKENS: environment
\* settings (defaults 500 and 50); the modelled deployment sets them small
\* enough that the sample texts span more than one window.
CHUNK_SIZE_TOKENS == 4
CHUNK_OVERLAP_TOKENS == 1
\* k of the similarity search issued by build_context.
CONTEXT_TOP_K == 5

\* ---------------------------------------------------------------- universe
ModuleIds == {1, 2}
Workers == {"w1", "w2"}
Personas == {"A", "B"}
Users == {"ua", "ub"}
PersonaOwner(p) == IF p = "A" THEN "ua" ELSE "ub"

\* schemas/knowledge.py ModuleType; "services" and "social_media" take the
\* same branch of the task as "resume" and are represented by it.
ModuleTypes == {"bio", "qna", "text_block", "url_source", "document", "resume"}

PENDING == "PENDING"
PROCESSING == "PROCESSING"
COMPLETED == "COMPLETED"
FAILED == "FAILED"
ProcessingStatus == {PENDING, PROCESSING, COMPLETED, FAILED}

\* Literal fragments of the task's formatting, each one symbol of the text.
QPrefix == "Q: "
ASep == "\nA: "
DocSep == "\n\n"

Min(a, b) == IF a < b THEN a ELSE b
Max(a, b) == IF a > b THEN a ELSE b

\* --------------------------------------------------------------- tokenizer
\* encoding.encode: greedy left-to-right merge; "a" followed by "b" is one
\* token, every other symbol is a token of its own.
RECURSIVE Encode(_)
Encode(s) ==
    IF s = <<>> THEN <<>>
    ELSE IF Len(s) >= 2 /\ s[1] = "a" /\ s[2] = "b"
         THEN <<SubSeq(s, 1, 2)>> \o Encode(SubSeq(s, 3, Len(s)))
         ELSE <<SubSeq(s, 1, 1)>> \o Encode(Tail(s))

\* encoding.decode: the concatenation of the tokens' symbols.
RECURSIVE Decode(_)
Decode(ts) == IF ts = <<>> THEN <<>> ELSE Head(ts) \o Decode(Tail(ts))

count_tokens(text) == Len(Encode(text))

\* The list slice s[a:b] (0-based, b excluded): a negative position counts
\* from the end, and positions outside the list are clamped to it.
PySlice(s, a, b) ==
    LET n == Len(s)
        lo == IF a < 0 THEN Max(a + n, 0) ELSE Min(a, n)
        hi == IF b < 0 THEN Max(b + n, 0) ELSE Min(b, n)
    IN  IF lo < hi THEN SubSeq(s, lo + 1, hi) ELSE <<>>

\* A loop that advances the window start one token too far.
NextStartTooFar(tokens, start, chunk_size, overlap) ==
    LET end == start + chunk_size
    IN  IF end < Len(tokens) THEN end - overlap + 1 ELSE Len(tokens)

\* Line 55: start = end - overlap if end < len(tokens) else len(tokens)
NextStart(tokens, start, chunk_size, overlap) ==
    LET end == start + chunk_size
    IN  IF end < Len(tokens) THEN end - overlap ELSE Len(tokens)

\* A Document whose token_count is the number of symbols of its text.
ChunkDocumentSymbolCount(chunk_tokens) ==
    [page_content |-> Decode(chunk_tokens),
     token_count |-> Len(Decode(chunk_tokens))]

\* Lines 46-52: the Document appended for the window chunk_tokens.
ChunkDocument(chunk_tokens) ==
    [page_content |-> Decode(chunk_tokens),
     token_count |-> Len(chunk_tokens)]

\* The while loop of TextProcessor.chunk_text from window start `start`
\* (0-based), lines 43-57.
RECURSIVE ChunkLoop(_, _, _, _)
ChunkLoop(tokens, start, chunk_size, overlap) ==
    IF ~(start < Len(tokens)) THEN <<>>
    ELSE LET end == start + chunk_size
             chunk_tokens == PySlice(tokens, start, end)
         IN  <<ChunkDocument(chunk_tokens)>>
             \o ChunkLoop(tokens, NextStart(tokens, start, chunk_size, overlap),
                          chunk_size, overlap)

chunk_text(text, chunk_size, overlap) ==
    ChunkLoop(Encode(text), 0, chunk_size, overlap)

\* "\n\n".join(doc.page_content for doc in docs)
RECURSIVE JoinDocs(_)
JoinDocs(docs) ==
    IF docs = <<>> THEN <<>>
    ELSE IF Len(docs) = 1 THEN docs[1]
    ELSE docs[1] \o <<DocSep>> \o JoinDocs(Tail(docs))

\* ------------------------------------------------------------------ inputs
\* KnowledgeModule.content (JSONB), with the keys the task reads.  A key the
\* dict lacks is the .get default: text "", pairs []; hasScraped is
\* ("scraped_content" in content).
Text1 == <<"b", "b", "a", "b", "b", "b">>
Text2 == <<"a">>
Pair1 == [hasQ |-> TRUE, q |-> <<"a">>, hasA |-> TRUE, a |-> <<"b">>]
EmptyContent == [text |-> <<>>, pairs |-> <<>>, hasScraped |-> FALSE]

\* What a fetch of the module's URL can give: a failure, no document, or one
\* document of scraped text.
FetchOutcomes == {"fail", "empty", "page"}
PageText == <<"b", "a">>

\* --------------------------------------------------------------- the state
VARIABLES
    modules,    \* knowledge_modules: module id -> row, for the ids in use
    deleted,    \* ids of deleted modules (an id is a uuid4, never reused)
    chunks,     \* knowledge_chunks: set of rows
    run,        \* worker slot -> the task run it executes
    queue,      \* task messages sent by the request handlers
    result,     \* what the last retrieval call returned
    handle,     \* the object context_builder's name _vector_store is bound to
    resp,       \* what the last GraphQL mutation request answered
    ck,         \* a call of TextProcessor.chunk_text: arguments and locals
    emb,        \* EmbeddingModel._embedding_model and the calls in progress
    abandoned,  \* ids of the modules a run of which was abandoned (history)
    doc,        \* a call of load_document: its key, position and resources
    sec         \* the SecurityMiddleware instance, its clock and its last answer

vars == <<modules, deleted, chunks, run, queue, result, handle, resp, ck, emb,
          abandoned, doc, sec>>

\* The variables outside the knowledge store and its retrieval.
aside == <<handle, resp, ck, emb, abandoned, doc, sec>>
\* The knowledge store, its workers and its retrieval.
store == <<modules, deleted, chunks, run, queue, result>>

DefaultStatus == PENDING

IdleRun == [pc |-> "idle", module_id |-> 0, text |-> <<>>, outcome |-> "none",
            session |-> "None"]
NoResult == [op |-> "none", persona |-> "-", query |-> <<>>, budget |-> 0,
             outcome |-> "none", candidates |-> <<>>, sources |-> <<>>,
             total_tokens |-> 0, context |-> <<>>, system_prompt |-> <<>>]

\* context_builder.py line 7 binds the name _vector_store when the module is
\* imported: to None (vectorstore.py line 25) unless get_vector_store() ran
\* in the process before that import.
NoneHandle == "None"
StoreHandle == "PGVectorStore"

\* No mutation request answered yet.
NoUser == "anonymous"
NoResp == [op |-> "none", user |-> "-", owner |-> "-", outcome |-> "none"]

\* No call of chunk_text in progress.
IdleChunker == [pc |-> "idle", tokens |-> <<>>, chunk_size |-> 0,
                overlap |-> 0, start |-> 0, chunks |-> <<>>]

\* EmbeddingModel._embedding_model is None (written 0) and nobody calls.
Callers == {"t1", "t2", "t3"}
IdleEmbedding == [model |-> 0, built |-> 0,
                  pc |-> [t \in Callers |-> "idle"],
                  got |-> [t \in Callers |-> 0]]

\* No call of load_document in progress.  A storage key is the sequence of
\* the parts of its file name between the dots: "report.PDF" is
\* <<"report", "PDF">>, ".pdf" is <<"", "pdf">>.
\* s3 is the process's _s3_client_instance ("None" until get_s3_client
\* builds it), client whether this call obtained it.
IdleLoad == [pc |-> "idle", key |-> <<>>, s3 |-> "None", client |-> FALSE,
             temp |-> "none", downloads |-> 0, pending |-> "none",
             outcome |-> "none"]

\* SecurityMiddleware.__init__, lines 40-51: the settings and the empty
\* in-memory tables.  now is the clock time.time() reads; passed counts, per
\* IP and clock value, the requests handed to call_next while rate limiting
\* is enabled (history); last is the last call answered.
ClientIPs == {"ip1", "ip2"}
NewSecurityMiddleware(enable_path_blocking, enable_rate_limiting, enable_pattern_detection, rate_limit_requests, rate_limit_window, suspicious_threshold) ==
    [enable_path_blocking |-> enable_path_blocking,
     enable_rate_limiting |-> enable_rate_limiting,
     enable_pattern_detection |-> enable_pattern_detection,
     rate_limit_requests |-> rate_limit_requests,
     rate_limit_window |-> rate_limit_window,
     suspicious_threshold |-> suspicious_threshold,
     request_counts |-> [ip \in ClientIPs |-> <<>>],
     suspicious_ips |-> [ip \in ClientIPs |-> 0],
     blocked_ips |-> {},
     now |-> 0,
     passed |-> [ip \in ClientIPs |-> [t \in 0..MaxTime |-> 0]],
     last |-> [op |-> "none", ip |-> "-", status |-> "none"]]

IdleSecurity == NewSecurityMiddleware(TRUE, TRUE, TRUE, 1, 1, 1)

Exists(m) == m \in DOMAIN modules
ChunksOf(m) == {c \in chunks : c.module_id = m}

\* ------------------------------------------------------------- CRUD layer
\* CRUDKnowledgeModule.create: processing_status takes the column default.
CrudCreate(m, persona_id, input) ==
    modules' = [x \in DOMAIN modules \cup {m} |->
                  IF x = m
                  THEN [persona_id |-> persona_id,
                        module_type |-> input.module_type,
                        content |-> input.content,
                        priority |-> input.priority,
                        is_active |-> input.is_active,
                        processing_status |-> DefaultStatus]
                  ELSE modules[x]]

\* CRUDKnowledgeModule.update: KnowledgeModuleUpdate carries content, priority
\* and is_active (module_type is no field of it and is dropped).
CrudUpdate(m, input) ==
    modules' = [modules EXCEPT ![m].content = input.content,
                               ![m].priority = input.priority,
                               ![m].is_active = input.is_active]

\* CRUDKnowledgeModule.delete; the chunks go with the module (ON DELETE
\* CASCADE, cascade="all, delete-orphan").
CrudDelete(m) ==
    /\ modules' = [x \in DOMAIN modules \ {m} |-> modules[x]]
    /\ deleted' = deleted \cup {m}
    /\ chunks' = chunks \ ChunksOf(m)

\* ------------------------------------------------------ GraphQL mutations
FreshIds == ModuleIds \ (DOMAIN modules \cup deleted)

\* The KnowledgeModuleInput values the mutations are called with: one or two
\* per branch of the task's dispatch on module_type.
Input(module_type, content, priority, is_active) ==
    [module_type |-> module_type, content |-> content,
     priority |-> priority, is_active |-> is_active]

ModuleInputs ==
    { Input("bio", [EmptyContent EXCEPT !.text = Text1], 1, TRUE),
      Input("bio", [EmptyContent EXCEPT !.text = Text2], 2, TRUE),
      Input("text_block", [EmptyContent EXCEPT !.text = Text2], 1, FALSE),
      Input("qna", [EmptyContent EXCEPT !.pairs = <<Pair1>>], 2, TRUE),
      Input("qna", EmptyContent, 1, TRUE),
      Input("url_source", EmptyContent, 1, TRUE),
      Input("url_source", [EmptyContent EXCEPT !.hasScraped = TRUE], 1, TRUE),
      Input("document", EmptyContent, 1, TRUE),
      Input("resume", EmptyContent, 1, TRUE) }

\* The persona each request names: every input for persona A, and one input
\* for persona B, the other tenant.
InputsFor(persona_id) ==
    IF persona_id = "A" THEN ModuleInputs
    ELSE {Input("bio", [EmptyContent EXCEPT !.text = Text1], 1, TRUE),
          Input("bio", [EmptyContent EXCEPT !.text = Text2], 2, TRUE)}

\* The checks of a mutation on the persona it touches, without the test of
\* persona.user_id against the caller.
OwnershipCheckAnyUser(user, persona_id) ==
    IF persona_id \notin Personas THEN "ValueError: Persona not found"
    ELSE IF user = NoUser THEN "PermissionError: Authentication required"
    ELSE "ok"

\* Lines 22-33 (and 81-92, 144-156): the persona is looked up, then the
\* caller is checked; "ok" when no check raises.
OwnershipCheck(user, persona_id) ==
    IF persona_id \notin Personas THEN "ValueError: Persona not found"
    ELSE IF user = NoUser THEN "PermissionError: Authentication required"
    ELSE IF PersonaOwner(persona_id) # user THEN "PermissionError: Access denied"
    ELSE "ok"

\* Lines 35-47: the module is created with the next unused id.
AddModule(persona_id, input) ==
    /\ FreshIds # {}
    /\ LET m == CHOOSE x \in FreshIds : \A y \in FreshIds : x <= y
       IN  CrudCreate(m, persona_id, input)

\* add_knowledge_module: the persona exists, the caller is authenticated and
\* owns it; the module is created.  The dispatch of the task is commented
\* out (lines 50-52), so no message is queued.
add_knowledge_module(user, persona_id, input) ==
    /\ OwnershipCheck(user, persona_id) = "ok"
    /\ AddModule(persona_id, input)
    /\ UNCHANGED <<deleted, chunks, run, queue, result, aside>>

\* update_knowledge_module: as above for the persona of an existing module.
\* The re-processing dispatch is commented out (lines 113-116).  The request
\* repeats the module's type and carries content of that type's shape.
update_knowledge_module(user, m, input) ==
    /\ Exists(m)
    /\ OwnershipCheck(user, modules[m].persona_id) = "ok"
    /\ input.module_type = modules[m].module_type
    /\ input \in InputsFor(modules[m].persona_id)
    /\ CrudUpdate(m, input)
    /\ UNCHANGED <<deleted, chunks, run, queue, result, aside>>

delete_knowledge_module(user, m) ==
    /\ Exists(m)
    /\ OwnershipCheck(user, modules[m].persona_id) = "ok"
    /\ CrudDelete(m)
    /\ UNCHANGED <<run, queue, result, aside>>

\* ------------------------------------------- process_knowledge_module_task
\* One page_content per pair; a missing "q" or "a" is the .get default "".
RECURSIVE QnaDocs(_)
QnaDocs(pairs) ==
    IF pairs = <<>> THEN <<>>
    ELSE LET pair == Head(pairs)
             q == IF pair.hasQ THEN pair.q ELSE <<>>
             a == IF pair.hasA THEN pair.a ELSE <<>>
         IN  <<(<<QPrefix>> \o q \o <<ASep>> \o a)>> \o QnaDocs(Tail(pairs))

\* load_document(module.file_storage_key).  No code path sets the column
\* (CRUDKnowledgeModule.create does not pass it), so the key is None and
\* Path(None) raises before any loader is chosen.
LoadDocumentOfModule(module) == [outcome |-> "raised", docs |-> <<>>]

\* Lines 55-95: the text units of the loaded module, or the way the run ends.
\* fetch is the outcome of load_web_content, used only when it is called.
\*   "error"  the task returns {"error": ...}
\*   "raised" an exception leaves the task
ExtractDocs(module, fetch) ==
    CASE module.module_type \in {"bio", "text_block"} ->
             [outcome |-> "ok", docs |-> <<module.content.text>>]
      [] module.module_type = "qna" ->
             [outcome |-> "ok", docs |-> QnaDocs(module.content.pairs)]
      [] module.module_type = "url_source" ->
             \* lines 78-82 put the scraped text into the loaded object's
             \* content dict in place; content is a plain JSONB column (no
             \* mutable tracking), so the commit writes nothing to the row
             IF ~module.content.hasScraped
             THEN CASE fetch = "fail" -> [outcome |-> "error", docs |-> <<>>]
                    [] fetch = "empty" -> [outcome |-> "ok", docs |-> <<>>]
                    [] OTHER -> [outcome |-> "ok", docs |-> <<PageText>>]
             \* line 86 reads `scraped`, bound only by the fetch: with the
             \* text cached the name is unbound and UnboundLocalError leaves
             ELSE [outcome |-> "raised", docs |-> <<>>]
      [] module.module_type = "document" -> LoadDocumentOfModule(module)
      [] OTHER -> [outcome |-> "error", docs |-> <<>>]

\* Lines 94-95 on the extraction's result.
Extraction(module, fetch) ==
    LET e == ExtractDocs(module, fetch)
    IN  IF e.outcome = "ok" /\ e.docs = <<>>
        THEN [outcome |-> "error", docs |-> <<>>]
        ELSE e

\* Lines 97-113: the chunk records of a run, in enumerate order.
ChunkRecords(m, text) ==
    LET cs == chunk_text(text, CHUNK_SIZE_TOKENS, CHUNK_OVERLAP_TOKENS)
    IN  [i \in 1..Len(cs) |->
            [module_id |-> m, chunk_index |-> i - 1,
             chunk_text |-> cs[i].page_content,
             token_count |-> cs[i].token_count]]

\* vector_store.add_documents: every record becomes a new row with a new
\* primary key; no row is removed or replaced.  The key (a uuid4) is written
\* <<module id, chunk index, n>> for the n-th row inserted with that module
\* id and chunk index, which keeps keys distinct.
AddDocuments(records) ==
    chunks \cup
    {[id |-> <<r.module_id, r.chunk_index,
               Cardinality({c \in chunks : /\ c.module_id = r.module_id
                                           /\ c.chunk_index = r.chunk_index}) + 1>>,
      module_id |-> r.module_id,
      chunk_index |-> r.chunk_index,
      chunk_text |-> r.chunk_text,
      token_count |-> r.token_count] : r \in {records[i] : i \in 1..Len(records)}}

\* What the run writes to processing_status when it starts, succeeds, fails:
\* the task holds no assignment to the column.
StatusOnStart(old) == old
\* A run that marks the module COMPLETED without having marked it PROCESSING.
StatusOnSuccessCompleted(old) == COMPLETED
StatusOnSuccess(old) == old
StatusOnFailure(old) == old

SetStatus(m, st) ==
    modules' = IF Exists(m) THEN [modules EXCEPT ![m].processing_status = st]
               ELSE modules

\* DatabaseTask.session, lines 21-25: the value of _session after the
\* property was read ("None", "open" or "closed").
SessionProperty(s) == IF s = "None" THEN "open" ELSE s

\* An after_return that closes the session and keeps it in _session.
after_return_keeping(s) == IF s # "None" THEN "closed" ELSE s

\* DatabaseTask.after_return, lines 27-30: the value of _session afterwards.
after_return(s) == IF s # "None" THEN "None" ELSE s

\* A delivery of the task for module id m on a free worker slot: lines 44-95.
\* The session is taken, the module is queried; extraction works on the
\* loaded object.
TaskBegin(w, m, fetch) ==
    /\ run[w].pc = "idle"
    /\ IF ~Exists(m)
       THEN /\ run' = [run EXCEPT ![w] = [pc |-> "done", module_id |-> m,
                                          text |-> <<>>, outcome |-> "error",
                                          session |-> SessionProperty(run[w].session)]]
            /\ UNCHANGED modules
       ELSE LET e == Extraction(modules[m], fetch)
            IN  IF e.outcome = "ok"
                THEN /\ run' = [run EXCEPT ![w] =
                                  [pc |-> "store", module_id |-> m,
                                   text |-> JoinDocs(e.docs), outcome |-> "none",
                                   session |-> SessionProperty(run[w].session)]]
                     /\ SetStatus(m, StatusOnStart(modules[m].processing_status))
                ELSE /\ run' = [run EXCEPT ![w] =
                                  [pc |-> "done", module_id |-> m,
                                   text |-> <<>>, outcome |-> e.outcome,
                                   session |-> SessionProperty(run[w].session)]]
                     /\ SetStatus(m, StatusOnFailure(modules[m].processing_status))
    /\ UNCHANGED <<deleted, chunks, queue, result, aside>>

\* Lines 97-121: chunking and vector_store.add_documents, which embeds and
\* inserts.  stored = FALSE is an embedding or database error raised by it;
\* an insert for a module deleted meanwhile violates the foreign key.
TaskStore(w, stored) ==
    /\ run[w].pc = "store"
    /\ LET m == run[w].module_id
           records == ChunkRecords(m, run[w].text)
           fits == Cardinality(chunks) + Len(records) <= MaxRows
           ok == stored /\ (Exists(m) \/ Len(records) = 0)
       IN  /\ stored => fits
           /\ IF ok
              THEN /\ chunks' = AddDocuments(records)
                   /\ SetStatus(m, StatusOnSuccess(
                          IF Exists(m) THEN modules[m].processing_status ELSE PENDING))
              ELSE /\ chunks' = chunks
                   /\ SetStatus(m, StatusOnFailure(
                          IF Exists(m) THEN modules[m].processing_status ELSE PENDING))
           /\ run' = [run EXCEPT ![w] = [pc |-> "done", module_id |-> m,
                                         text |-> <<>>,
                                         outcome |-> IF ok THEN "ok" ELSE "raised",
                                         session |-> run[w].session]]
    /\ UNCHANGED <<deleted, queue, result, aside>>

\* The task returned or raised: Celery calls DatabaseTask.after_return and
\* the slot is free again.
TaskReturn(w) ==
    /\ run[w].pc = "done"
    /\ run' = [run EXCEPT ![w] =
                  [IdleRun EXCEPT !.session = after_return(run[w].session)]]
    /\ UNCHANGED <<modules, deleted, chunks, queue, result, aside>>

\* The worker process dies in the middle of a run (task_time_limit kill, OOM,
\* host failure): the run is abandoned where it stands, and the slot is
\* taken by a new process, whose _session is None.
AbandonRun(w) ==
    /\ run[w].pc = "store"
    /\ run' = [run EXCEPT ![w] = IdleRun]
    /\ UNCHANGED <<modules, deleted, chunks, queue, result>>

TaskAbandon(w) ==
    /\ AbandonRun(w)
    /\ UNCHANGED aside

\* ------------------------------------------------------------ specification
Init ==
    /\ modules = << >>
    /\ deleted = {}
    /\ chunks = {}
    /\ run = [w \in Workers |-> IdleRun]
    /\ queue = {}
    /\ result = NoResult
    /\ handle = NoneHandle
    /\ resp = NoResp
    /\ ck = IdleChunker
    /\ emb = IdleEmbedding
    /\ abandoned = {}
    /\ doc = IdleLoad
    /\ sec = IdleSecurity

Next ==
    \/ \E u \in Users, p \in Personas :
           \E i \in InputsFor(p) : add_knowledge_module(u, p, i)
    \/ \E u \in Users, m \in ModuleIds, i \in ModuleInputs :
           update_knowledge_module(u, m, i)
    \/ \E u \in Users, m \in ModuleIds : delete_knowledge_module(u, m)
    \/ \E w \in Workers, m \in ModuleIds, f \in FetchOutcomes : TaskBegin(w, m, f)
    \/ \E w \in Workers, b \in BOOLEAN : TaskStore(w, b)
    \/ \E w \in Workers : TaskReturn(w)
    \/ \E w \in Workers : TaskAbandon(w)

Spec == Init /\ [][Next]_vars

\* ---------------------------------------------------------------- retrieval
\* The query texts and the similarity of a stored chunk to a query: the
\* number of occurrences of the query's symbol in the chunk text (the
\* embedding distance is a deterministic function of the two texts).
Queries == {<<"a">>, <<"b">>}
Similarity(query, text) ==
    Cardinality({i \in 1..Len(text) : text[i] = query[1]})

\* All the orders of the rows S that a descending sort by key can return
\* (key[c] is a pair <<major, minor>>): rows the key does not separate come
\* in any order.
KeyBefore(k1, k2) == k1[1] > k2[1] \/ (k1[1] = k2[1] /\ k1[2] > k2[2])
RECURSIVE SortedBy(_, _)
SortedBy(S, key) ==
    IF S = {} THEN {<<>>}
    ELSE UNION {{<<x>> \o rest : rest \in SortedBy(S \ {x}, key)} :
                x \in {y \in S : \A z \in S : ~KeyBefore(key[z], key[y])}}

Limit(rows, k) == SubSeq(rows, 1, Min(k, Len(rows)))

\* get_by_persona without the persona condition.
get_by_persona_any_persona(persona_id) ==
    {m \in DOMAIN modules : modules[m].is_active}

\* CRUDKnowledgeModule.get_by_persona with include_inactive = False.
get_by_persona(persona_id) ==
    {m \in DOMAIN modules : /\ modules[m].persona_id = persona_id
                            /\ modules[m].is_active}

\* _vector_store.asimilarity_search(query, k, filter={"module_id": {"$in": ids}})
asimilarity_search(query, k, module_ids) ==
    LET hit == {c \in chunks : c.module_id \in module_ids}
        key == [c \in hit |-> <<Similarity(query, c.chunk_text), 0>>]
    IN  {Limit(rows, k) : rows \in SortedBy(hit, key)}

\* The loop without the budget test before a chunk is appended.
RECURSIVE AccumulateAll(_, _, _, _, _)
AccumulateAll(relevant_chunks, i, total_tokens, sources_used, max_context_tokens) ==
    IF i > Len(relevant_chunks)
    THEN [sources |-> sources_used, total_tokens |-> total_tokens]
    ELSE AccumulateAll(relevant_chunks, i + 1,
                       total_tokens + relevant_chunks[i].token_count,
                       Append(sources_used, relevant_chunks[i]),
                       max_context_tokens)

\* The loop with `continue` in place of `break`: a chunk over the budget is
\* passed over and the candidates after it are still tried.
RECURSIVE AccumulateSkipping(_, _, _, _, _)
AccumulateSkipping(relevant_chunks, i, total_tokens, sources_used, max_context_tokens) ==
    IF i > Len(relevant_chunks)
    THEN [sources |-> sources_used, total_tokens |-> total_tokens]
    ELSE LET chunk_tokens == relevant_chunks[i].token_count
         IN  IF total_tokens + chunk_tokens > max_context_tokens
             THEN AccumulateSkipping(relevant_chunks, i + 1, total_tokens,
                                     sources_used, max_context_tokens)
             ELSE AccumulateSkipping(relevant_chunks, i + 1,
                                     total_tokens + chunk_tokens,
                                     Append(sources_used, relevant_chunks[i]),
                                     max_context_tokens)

\* The loop of build_context, lines 50-72, from candidate i on.
RECURSIVE Accumulate(_, _, _, _, _)
Accumulate(relevant_chunks, i, total_tokens, sources_used, max_context_tokens) ==
    IF i > Len(relevant_chunks)
    THEN [sources |-> sources_used, total_tokens |-> total_tokens]
    ELSE LET chunk_tokens == relevant_chunks[i].token_count
         IN  IF total_tokens + chunk_tokens > max_context_tokens
             THEN [sources |-> sources_used, total_tokens |-> total_tokens]
             ELSE Accumulate(relevant_chunks, i + 1, total_tokens + chunk_tokens,
                             Append(sources_used, relevant_chunks[i]),
                             max_context_tokens)

\* The personas table: persona A has a system_prompt, persona B has neither
\* a system_prompt nor a base_prompt.
PersonaRow(persona_id) ==
    [system_prompt |-> IF persona_id = "A" THEN <<"system prompt of A">> ELSE <<>>,
     base_prompt |-> <<>>,
     public_name |-> persona_id]

\* ContextBuilder._build_system_prompt, lines 92-114.
build_system_prompt(persona_id) ==
    LET persona == PersonaRow(persona_id)
        base == IF persona.system_prompt # <<>> THEN persona.system_prompt
                ELSE IF persona.base_prompt # <<>> THEN persona.base_prompt
                ELSE <<"You are ", persona.public_name, ", an AI assistant. ">>
    IN  base \o <<DocSep, "\nYou have access to the following knowledge sources. ">>

\* Lines 60-63 and 74: the context parts joined by "\n\n---\n\n".
RECURSIVE ContextText(_)
ContextText(rows) ==
    IF rows = <<>> THEN <<>>
    ELSE LET part == <<"[Source]\n">> \o Head(rows).chunk_text
         IN  IF Len(rows) = 1 THEN part
             ELSE part \o <<"\n\n---\n\n">> \o ContextText(Tail(rows))

\* ContextBuilder(max_context_tokens).build_context(db, persona, query).
\* Line 43 calls a method of the object the name _vector_store is bound to:
\* on None the attribute lookup raises AttributeError.
build_context(persona_id, query, max_context_tokens) ==
    /\ IF handle = NoneHandle
       THEN result' = [NoResult EXCEPT !.op = "build_context",
                                       !.persona = persona_id,
                                       !.query = query,
                                       !.budget = max_context_tokens,
                                       !.outcome = "AttributeError"]
       ELSE \E relevant_chunks \in
              asimilarity_search(query, CONTEXT_TOP_K, get_by_persona(persona_id)) :
            LET acc == Accumulate(relevant_chunks, 1, 0, <<>>, max_context_tokens)
            IN  result' = [op |-> "build_context", persona |-> persona_id,
                           query |-> query,
                           budget |-> max_context_tokens,
                           outcome |-> "returned",
                           candidates |-> relevant_chunks,
                           sources |-> acc.sources,
                           total_tokens |-> acc.total_tokens,
                           context |-> ContextText(acc.sources),
                           system_prompt |-> build_system_prompt(persona_id)]
    /\ UNCHANGED <<modules, deleted, chunks, run, queue, aside>>

\* The rows of the SQL statement of search_similar_chunks, lines 40-64.
SimilarRows(persona_id, query, top_k, threshold) ==
    LET hit == {c \in chunks :
                  /\ c.module_id \in DOMAIN modules
                  /\ modules[c.module_id].persona_id = persona_id
                  /\ modules[c.module_id].is_active
                  /\ Similarity(query, c.chunk_text) >= threshold}
        \* ORDER BY km.priority DESC, similarity_score DESC
        key == [c \in hit |-> <<modules[c.module_id].priority,
                                Similarity(query, c.chunk_text)>>]
    IN  {Limit(rows, top_k) : rows \in SortedBy(hit, key)}

search_similar_chunks(persona_id, query, top_k, threshold) ==
    /\ \E rows \in SimilarRows(persona_id, query, top_k, threshold) :
         result' = [NoResult EXCEPT !.op = "search_similar_chunks",
                                    !.persona = persona_id,
                                    !.query = query,
                                    !.outcome = "returned",
                                    !.candidates = rows,
                                    !.sources = rows]
    /\ UNCHANGED <<modules, deleted, chunks, run, queue, aside>>

\* The stores the retrieval functions are applied to: both modules exist, of
\* any persona, priority and activity; module 1 holds up to two chunks and
\* module 2 up to one, each of one of the texts ingestion stores.
RagTexts == {<<"a">>, <<"b", "b">>}
RagRow(m, idx, text) ==
    [id |-> <<m, idx, 1>>, module_id |-> m, chunk_index |-> idx,
     chunk_text |-> text, token_count |-> count_tokens(text)]
RagModule(persona_id, priority, is_active) ==
    [persona_id |-> persona_id, module_type |-> "bio",
     content |-> [EmptyContent EXCEPT !.text = Text1],
     priority |-> priority, is_active |-> is_active,
     processing_status |-> DefaultStatus]
RagChunkTables ==
    {a \cup b \cup c :
        a \in {{}} \cup {{RagRow(1, 0, t)} : t \in RagTexts},
        b \in {{}} \cup {{RagRow(1, 1, t)} : t \in RagTexts},
        c \in {{}} \cup {{RagRow(2, 0, t)} : t \in RagTexts}}

RagInit ==
    /\ modules \in [ModuleIds -> {RagModule(p, pr, act) :
                                    p \in Personas, pr \in {1, 2}, act \in BOOLEAN}]
    /\ chunks \in RagChunkTables
    /\ deleted = {}
    /\ run = [w \in Workers |-> IdleRun]
    /\ queue = {}
    /\ result = NoResult
    /\ handle \in {NoneHandle, StoreHandle}
    /\ resp = NoResp
    /\ ck = IdleChunker
    /\ emb = IdleEmbedding
    /\ abandoned = {}
    /\ doc = IdleLoad
    /\ sec = IdleSecurity

RagNext ==
    \/ \E p \in Personas, q \in Queries, b \in 0..MaxBudget : build_context(p, q, b)
    \/ \E p \in Personas, q \in Queries, k \in 1..MaxTopK, t \in 0..1 :
           search_similar_chunks(p, q, k, t)

SpecRag == RagInit /\ [][RagNext]_vars

\* ------------------------------------------------- the mutations' callers
\* A GraphQL mutation request from any caller (authenticated or not) for any
\* persona or module id, with the answer the caller gets: the value returned
\* ("ok", "False") or the exception raised.
OwnerOf(persona_id) ==
    IF persona_id \in Personas THEN PersonaOwner(persona_id) ELSE "-"

AddRequest(user, persona_id, input) ==
    LET o == OwnershipCheck(user, persona_id)
    IN  /\ IF o = "ok" THEN AddModule(persona_id, input) ELSE UNCHANGED modules
        /\ resp' = [op |-> "add", user |-> user, owner |-> OwnerOf(persona_id),
                    outcome |-> o]
        /\ UNCHANGED <<deleted, chunks, run, queue, result, handle, ck, emb, abandoned, doc, sec>>

\* Lines 75-92, 105-110: an unknown module id raises before the persona is
\* looked up.
UpdateRequest(user, m, input) ==
    LET o == IF ~Exists(m) THEN "ValueError: Module not found"
             ELSE OwnershipCheck(user, modules[m].persona_id)
    IN  /\ IF o = "ok"
           THEN /\ input.module_type = modules[m].module_type
                /\ CrudUpdate(m, input)
           ELSE UNCHANGED modules
        /\ resp' = [op |-> "update", user |-> user,
                    owner |-> IF Exists(m) THEN OwnerOf(modules[m].persona_id)
                              ELSE "-",
                    outcome |-> o]
        /\ UNCHANGED <<deleted, chunks, run, queue, result, handle, ck, emb, abandoned, doc, sec>>

\* delete_knowledge_module: an unknown module id (or persona) returns False.
DeleteRequest(user, m) ==
    LET c == IF ~Exists(m) THEN "False"
             ELSE OwnershipCheck(user, modules[m].persona_id)
        o == IF c = "ValueError: Persona not found" THEN "False" ELSE c
    IN  /\ IF o = "ok" THEN CrudDelete(m)
                       ELSE UNCHANGED <<modules, deleted, chunks>>
        /\ resp' = [op |-> "delete", user |-> user,
                    owner |-> IF Exists(m) THEN OwnerOf(modules[m].persona_id)
                              ELSE "-",
                    outcome |-> o]
        /\ UNCHANGED <<run, queue, result, handle, ck, emb, abandoned, doc, sec>>

\* The stores the requests arrive at: no module, module 1, or both, each of
\* either persona, with the chunk tables of the retrieval section.
AuthDomains == {{}, {1}, {1, 2}}
AuthInit ==
    /\ \E D \in AuthDomains :
          /\ modules \in [D -> {RagModule(p, 1, TRUE) : p \in Personas}]
          /\ chunks \in {t \in RagChunkTables : \A c \in t : c.module_id \in D}
    /\ deleted = {}
    /\ run = [w \in Workers |-> IdleRun]
    /\ queue = {}
    /\ result = NoResult
    /\ handle = NoneHandle
    /\ resp = NoResp
    /\ ck = IdleChunker
    /\ emb = IdleEmbedding
    /\ abandoned = {}
    /\ doc = IdleLoad
    /\ sec = IdleSecurity

AuthNext ==
    \/ \E u \in Users \cup {NoUser}, p \in Personas \cup {"X"}, i \in ModuleInputs :
           AddRequest(u, p, i)
    \/ \E u \in Users \cup {NoUser}, m \in ModuleIds, i \in ModuleInputs :
           UpdateRequest(u, m, i)
    \/ \E u \in Users \cup {NoUser}, m \in ModuleIds : DeleteRequest(u, m)

SpecAuth == AuthInit /\ [][AuthNext]_vars

\* ------------------------------------------------ TextProcessor.chunk_text
\* One call of chunk_text, an iteration of its while loop at a time.  Every
\* appended Document is kept with the window it was cut from (start and
\* chunk_tokens, the loop's locals).
Texts == UNION {[1..n -> {"a", "b"}] : n \in 0..MaxTextLen}

\* Lines 39-41.
ChunkCall(text, chunk_size, overlap) ==
    [pc |-> "loop", tokens |-> Encode(text), chunk_size |-> chunk_size,
     overlap |-> overlap, start |-> 0, chunks |-> <<>>]

\* Lines 43-55: one iteration.
ChunkIterate ==
    /\ ck.pc = "loop"
    /\ ck.start < Len(ck.tokens)
    /\ Len(ck.chunks) < MaxIterations
    /\ LET end == ck.start + ck.chunk_size
           chunk_tokens == PySlice(ck.tokens, ck.start, end)
           document == ChunkDocument(chunk_tokens)
       IN  ck' = [ck EXCEPT
                    !.chunks = Append(@, [start |-> ck.start,
                                          tokens |-> chunk_tokens,
                                          page_content |-> document.page_content,
                                          token_count |-> document.token_count]),
                    !.start = NextStart(ck.tokens, ck.start, ck.chunk_size,
                                        ck.overlap)]
    /\ UNCHANGED <<store, handle, resp, emb, abandoned, doc, sec>>

\* Lines 43 and 57: the loop condition fails and the list is returned.
ChunkReturn ==
    /\ ck.pc = "loop"
    /\ ~(ck.start < Len(ck.tokens))
    /\ ck' = [ck EXCEPT !.pc = "done"]
    /\ UNCHANGED <<store, handle, resp, emb, abandoned, doc, sec>>

ChunkInit ==
    /\ ck \in {ChunkCall(text, chunk_size, overlap) :
                 text \in Texts, chunk_size \in 1..MaxChunkArg,
                 overlap \in 0..MaxChunkArg}
    /\ modules = << >>
    /\ deleted = {}
    /\ chunks = {}
    /\ run = [w \in Workers |-> IdleRun]
    /\ queue = {}
    /\ result = NoResult
    /\ handle = NoneHandle
    /\ resp = NoResp
    /\ emb = IdleEmbedding
    /\ abandoned = {}
    /\ doc = IdleLoad
    /\ sec = IdleSecurity

ChunkNext == ChunkIterate \/ ChunkReturn

SpecChunk == ChunkInit /\ [][ChunkNext]_vars

\* --------------------------------------- EmbeddingModel.get_embedding_model
\* Calls of the classmethod by the threads of one process, a statement at a
\* time.  An instance of HuggingFaceEmbeddings is written by the number of
\* the construction that made it.
\* Line 13: the test of cls._embedding_model.
EmbTest(t) ==
    /\ emb.pc[t] = "idle"
    /\ emb' = [emb EXCEPT !.pc[t] = IF emb.model = 0 THEN "load" ELSE "return",
                          !.got[t] = 0]
    /\ UNCHANGED <<store, handle, resp, ck, abandoned, doc, sec>>

\* Lines 14-18: the model is constructed and assigned to the class attribute.
EmbLoad(t) ==
    /\ emb.pc[t] = "load"
    /\ emb' = [emb EXCEPT !.built = @ + 1, !.model = emb.built + 1,
                          !.pc[t] = "return"]
    /\ UNCHANGED <<store, handle, resp, ck, abandoned, doc, sec>>

\* Line 19: return cls._embedding_model.
EmbReturn(t) ==
    /\ emb.pc[t] = "return"
    /\ emb' = [emb EXCEPT !.got[t] = emb.model, !.pc[t] = "idle"]
    /\ UNCHANGED <<store, handle, resp, ck, abandoned, doc, sec>>

EmbInit ==
    /\ emb = IdleEmbedding
    /\ modules = << >>
    /\ deleted = {}
    /\ chunks = {}
    /\ run = [w \in Workers |-> IdleRun]
    /\ queue = {}
    /\ result = NoResult
    /\ handle = NoneHandle
    /\ resp = NoResp
    /\ ck = IdleChunker
    /\ abandoned = {}
    /\ doc = IdleLoad
    /\ sec = IdleSecurity

EmbNext ==
    \/ \E t \in Callers : EmbTest(t)
    \/ \E t \in Callers : EmbLoad(t)
    \/ \E t \in Callers : EmbReturn(t)

SpecEmbed == EmbInit /\ [][EmbNext]_vars

\* ------------------------------------------------ runs on one stored module
\* The task alone, on a store that holds module 1 with any content the
\* mutations accept (qna pairs lacking a question or an answer included),
\* with the record of the modules whose run was abandoned.
PairNoA == [hasQ |-> TRUE, q |-> <<"a">>, hasA |-> FALSE, a |-> <<>>]
PairNoQ == [hasQ |-> FALSE, q |-> <<>>, hasA |-> TRUE, a |-> <<"b">>]
IngestInputs ==
    ModuleInputs \cup
    { Input("qna", [EmptyContent EXCEPT !.pairs = <<Pair1, PairNoA>>], 1, TRUE),
      Input("qna", [EmptyContent EXCEPT !.pairs = <<PairNoQ, Pair1>>], 1, TRUE),
      Input("qna", [EmptyContent EXCEPT !.pairs = <<PairNoA>>], 1, TRUE) }

IngestModule(input) ==
    [persona_id |-> "A", module_type |-> input.module_type,
     content |-> input.content, priority |-> input.priority,
     is_active |-> input.is_active, processing_status |-> DefaultStatus]

TaskAbandonObserved(w) ==
    /\ AbandonRun(w)
    /\ abandoned' = abandoned \cup {run[w].module_id}
    /\ UNCHANGED <<handle, resp, ck, emb, doc, sec>>

IngestInit ==
    /\ modules \in [{1} -> {IngestModule(i) : i \in IngestInputs}]
    /\ deleted = {}
    /\ chunks = {}
    /\ run = [w \in Workers |-> IdleRun]
    /\ queue = {}
    /\ result = NoResult
    /\ handle = NoneHandle
    /\ resp = NoResp
    /\ ck = IdleChunker
    /\ emb = IdleEmbedding
    /\ abandoned = {}
    /\ doc = IdleLoad
    /\ sec = IdleSecurity

IngestNext ==
    \/ \E w \in Workers, m \in ModuleIds, f \in FetchOutcomes : TaskBegin(w, m, f)
    \/ \E w \in Workers, b \in BOOLEAN : TaskStore(w, b)
    \/ \E w \in Workers : TaskReturn(w)
    \/ \E w \in Workers : TaskAbandonObserved(w)

SpecIngest == IngestInit /\ [][IngestNext]_vars

\* ------------------------------------------------------------ load_document
\* One call of load_document(file_storage_key), a statement at a time, and
\* the temporary file of S3Client.download_to_temp.
StorageKeys ==
    {<<"report", "pdf">>, <<"report", "PDF">>, <<"old", "doc">>,
     <<"letter", "docx">>, <<"data", "csv">>, <<"sheet", "xls">>,
     <<"sheet", "xlsx">>, <<"notes", "txt">>, <<"archive", "tar", "gz">>,
     <<"README">>, <<"", "pdf">>, <<"photo", "png">>}

\* Path(key).suffix without its dot: the part after the last dot of the
\* name, "" when the name has no dot or only a leading one.
Suffix(key) ==
    IF Len(key) < 2 \/ (Len(key) = 2 /\ key[1] = "") THEN ""
    ELSE key[Len(key)]

\* str.lower on the suffixes above.
Lower(x) == IF x = "PDF" THEN "pdf" ELSE x

SupportedExtensions == {"pdf", "doc", "docx", "csv", "xls", "xlsx"}

\* A test that lets every key with a suffix through.
IsSupportedAnySuffix(ext) == ext # ""

\* Line 27: ext in [".pdf", ".doc", ".docx", ".csv", ".xls", ".xlsx"]
IsSupported(ext) == ext \in SupportedExtensions

\* A finally block that leaves the file where it is.
UnlinkNever(temp) == temp

\* download_to_temp lines 99-101: if os.path.exists(temp_path): os.unlink
Unlink(temp) == IF temp = "exists" THEN "removed" ELSE temp

LoadCall(key) ==
    /\ doc.pc \in {"idle", "done"}
    /\ doc' = [IdleLoad EXCEPT !.pc = "check", !.key = key, !.s3 = doc.s3]
    /\ UNCHANGED <<store, handle, resp, ck, emb, abandoned, sec>>

\* Lines 25-28.
LoadCheck ==
    /\ doc.pc = "check"
    /\ doc' = IF IsSupported(Lower(Suffix(doc.key)))
              THEN [doc EXCEPT !.pc = "client"]
              ELSE [doc EXCEPT !.pc = "done",
                               !.outcome = "ValueError: Unsupported file type"]
    /\ UNCHANGED <<store, handle, resp, ck, emb, abandoned, sec>>

\* Line 30: get_s3_client(), storage.py lines 107-122.
LoadGetClient ==
    /\ doc.pc = "client"
    /\ doc' = [doc EXCEPT !.pc = "temp", !.client = TRUE, !.s3 = "S3Client"]
    /\ UNCHANGED <<store, handle, resp, ck, emb, abandoned, sec>>

\* Line 33 entering download_to_temp, lines 89-94: the temporary file is
\* created and closed.
LoadTemp ==
    /\ doc.pc = "temp"
    /\ doc' = [doc EXCEPT !.pc = "download", !.temp = "exists"]
    /\ UNCHANGED <<store, handle, resp, ck, emb, abandoned, sec>>

\* download_to_temp line 97: the download succeeds, or raises.
LoadDownload(ok) ==
    /\ doc.pc = "download"
    /\ doc' = [doc EXCEPT !.downloads = @ + 1,
                          !.pc = IF ok THEN "load" ELSE "finally",
                          !.pending = IF ok THEN "none"
                                      ELSE "Exception: Error loading file"]
    /\ UNCHANGED <<store, handle, resp, ck, emb, abandoned, sec>>

\* Lines 34-50 inside the with block: the loader is built and run; it
\* returns documents, raises ValueError, or raises something else (wrapped
\* at line 55; ValueError is re-raised as it is, lines 52-53).
LoadOutcomes ==
    {"returned", "ValueError", "Exception: Error loading file"}
LoadRun(how) ==
    /\ doc.pc = "load"
    /\ doc' = [doc EXCEPT !.pc = "finally", !.pending = how]
    /\ UNCHANGED <<store, handle, resp, ck, emb, abandoned, sec>>

\* download_to_temp lines 99-101, then load_document returns or raises.
LoadFinally ==
    /\ doc.pc = "finally"
    /\ doc' = [doc EXCEPT !.pc = "done", !.temp = Unlink(doc.temp),
                          !.outcome = doc.pending, !.pending = "none"]
    /\ UNCHANGED <<store, handle, resp, ck, emb, abandoned, sec>>

DocInit ==
    /\ doc = IdleLoad
    /\ modules = << >>
    /\ deleted = {}
    /\ chunks = {}
    /\ run = [w \in Workers |-> IdleRun]
    /\ queue = {}
    /\ result = NoResult
    /\ handle = NoneHandle
    /\ resp = NoResp
    /\ ck = IdleChunker
    /\ emb = IdleEmbedding
    /\ abandoned = {}
    /\ sec = IdleSecurity

DocNext ==
    \/ \E key \in StorageKeys : LoadCall(key)
    \/ LoadCheck
    \/ LoadGetClient
    \/ LoadTemp
    \/ \E ok \in BOOLEAN : LoadDownload(ok)
    \/ \E how \in LoadOutcomes : LoadRun(how)
    \/ LoadFinally

SpecDoc == DocInit /\ [][DocNext]_vars

\* -------------------------------------------------------- SecurityMiddleware
\* The request paths: one of blocked_paths (which a pattern matches too), one
\* only a pattern matches (\.php$), one scanner indicator, one plain path.
Paths == {"/.env", "/index.php", "/js/lkk_ch.js", "/graphql"}

\* _is_blocked_path, lines 193-204.
is_blocked_path(path) == path \in {"/.env"} \/ path \in {"/.env", "/index.php"}

\* _is_scanner_request, lines 206-208.
is_scanner_request(path) == path \in {"/js/lkk_ch.js"}

\* A membership test that finds no IP.
InBlockedIpsNever(blocked_ips, client_ip) == FALSE

\* Line 153: client_ip in self._blocked_ips
InBlockedIps(blocked_ips, client_ip) == client_ip \in blocked_ips

\* A threshold test passed only above the threshold.
ThresholdExceeded(count, threshold) == count > threshold

\* Line 235: self._suspicious_ips[client_ip] >= self.suspicious_threshold
ThresholdReached(count, threshold) == count >= threshold

\* A limit test passed only above the limit.
LimitExceeded(n, limit) == n > limit

\* Line 223: len(requests) >= self.rate_limit_requests
LimitReached(n, limit) == n >= limit

\* _record_suspicious_activity, lines 231-239, on the middleware state mw.
record_suspicious_activity(mw, client_ip) ==
    LET count == mw.suspicious_ips[client_ip] + 1
    IN  [mw EXCEPT !.suspicious_ips[client_ip] = count,
                   !.blocked_ips = IF ThresholdReached(count, mw.suspicious_threshold)
                                   THEN @ \cup {client_ip} ELSE @]

\* The list comprehension of line 219.
RECURSIVE After(_, _)
After(requests, window_start) ==
    IF requests = <<>> THEN <<>>
    ELSE IF Head(requests) > window_start
         THEN <<Head(requests)>> \o After(Tail(requests), window_start)
         ELSE After(Tail(requests), window_start)

\* _check_rate_limit, lines 210-229: the answer and the middleware state.
check_rate_limit(mw, client_ip) ==
    LET current_time == mw.now
        window_start == current_time - mw.rate_limit_window
        requests == After(mw.request_counts[client_ip], window_start)
        pruned == [mw EXCEPT !.request_counts[client_ip] = requests]
    IN  IF LimitReached(Len(requests), mw.rate_limit_requests)
        THEN [allowed |-> FALSE,
              mw |-> record_suspicious_activity(pruned, client_ip)]
        ELSE [allowed |-> TRUE,
              mw |-> [pruned EXCEPT !.request_counts[client_ip] =
                                        Append(requests, current_time)]]

\* The answer written to last.
Answered(mw, client_ip, status) ==
    [mw EXCEPT !.last = [op |-> "dispatch", ip |-> client_ip,
                         status |-> status]]

\* Line 191: the request goes to the application.
CallNext(mw, client_ip) ==
    Answered([mw EXCEPT !.passed[client_ip][mw.now] =
                            IF mw.enable_rate_limiting THEN @ + 1 ELSE @],
             client_ip, "200")

\* dispatch, lines 146-191.
dispatch(client_ip, path) ==
    /\ sec' =
         IF InBlockedIps(sec.blocked_ips, client_ip)
         THEN Answered(sec, client_ip, "403")
         ELSE IF sec.enable_path_blocking /\ is_blocked_path(path)
         THEN Answered(record_suspicious_activity(sec, client_ip), client_ip, "404")
         ELSE IF sec.enable_pattern_detection /\ is_scanner_request(path)
         THEN Answered(record_suspicious_activity(sec, client_ip), client_ip, "404")
         ELSE IF sec.enable_rate_limiting
         THEN LET r == check_rate_limit(sec, client_ip)
              IN  IF ~r.allowed THEN Answered(r.mw, client_ip, "429")
                  ELSE CallNext(r.mw, client_ip)
         ELSE CallNext(sec, client_ip)
    /\ UNCHANGED <<store, handle, resp, ck, emb, abandoned, doc>>

\* unblock_ip, lines 286-293.
unblock_ip(ip) ==
    /\ sec' = IF ip \in sec.blocked_ips
              THEN [sec EXCEPT !.blocked_ips = @ \ {ip},
                               !.suspicious_ips[ip] = 0,
                               !.last = [op |-> "unblock_ip", ip |-> ip,
                                         status |-> "True"]]
              ELSE [sec EXCEPT !.last = [op |-> "unblock_ip", ip |-> ip,
                                         status |-> "False"]]
    /\ UNCHANGED <<store, handle, resp, ck, emb, abandoned, doc>>

\* The clock moves on.
Tick ==
    /\ sec.now < MaxTime
    /\ sec' = [sec EXCEPT !.now = @ + 1]
    /\ UNCHANGED <<store, handle, resp, ck, emb, abandoned, doc>>

\* The middlewares that are built.  The three flags are all on (main.py), all
\* off (create_security_middleware(enable_all=False)), rate limiting alone or
\* the two path checks alone.  A setting that the flags leave unread is drawn
\* once: the limit and the window without rate limiting, the threshold where
\* nothing is recorded.
Configurations ==
    {NewSecurityMiddleware(TRUE, TRUE, TRUE, n, w, th) :
        n \in 1..MaxRate, w \in 1..MaxWindow, th \in 1..MaxThreshold}
    \cup {NewSecurityMiddleware(FALSE, TRUE, FALSE, MaxRate, MaxWindow, MaxThreshold)}
    \cup {NewSecurityMiddleware(TRUE, FALSE, TRUE, 1, 1, th) : th \in 1..MaxThreshold}
    \cup {NewSecurityMiddleware(FALSE, FALSE, FALSE, 1, 1, 1)}

SecInit ==
    /\ sec \in Configurations
    /\ modules = << >>
    /\ deleted = {}
    /\ chunks = {}
    /\ run = [w \in Workers |-> IdleRun]
    /\ queue = {}
    /\ result = NoResult
    /\ handle = NoneHandle
    /\ resp = NoResp
    /\ ck = IdleChunker
    /\ emb = IdleEmbedding
    /\ abandoned = {}
    /\ doc = IdleLoad

SecNext ==
    \/ \E ip \in ClientIPs, path \in Paths : dispatch(ip, path)
    \/ \E ip \in ClientIPs : unblock_ip(ip)
    \/ Tick

SpecSec == SecInit /\ [][SecNext]_vars

\* =================================================================== claims
RECURSIVE SumTokens(_)
SumTokens(rows) ==
    IF rows = <<>> THEN 0 ELSE Head(rows).token_count + SumTokens(Tail(rows))

\* C1: every source build_context returns, and every row
\* search_similar_chunks returns, for persona P belongs to a module whose
\* persona_id is P and whose is_active flag is true, whatever the other
\* personas hold.
C1_TenantIsolation ==
    \A i \in 1..Len(result.sources) :
        LET c == result.sources[i]
        IN  /\ c.module_id \in DOMAIN modules
            /\ modules[c.module_id].persona_id = result.persona
            /\ modules[c.module_id].is_active

\* A context with a source, built while an active module of the other
\* persona holds a chunk.
C1_Witness ==
    /\ result.op = "build_context"
    /\ Len(result.sources) >= 1
    /\ \E c \in chunks : /\ modules[c.module_id].persona_id # result.persona
                         /\ modules[c.module_id].is_active

\* C2: the token_count of the chunks build_context includes sums to at most
\* max_context_tokens.
C2_BudgetRespected ==
    result.op = "build_context" => SumTokens(result.sources) <= result.budget

\* A context that holds a chunk and left a candidate out for the budget.
C2_Witness ==
    /\ result.op = "build_context"
    /\ Len(result.sources) >= 1
    /\ Len(result.sources) < Len(result.candidates)

AllowedTransitions ==
    {<<PENDING, PROCESSING>>, <<PROCESSING, COMPLETED>>, <<PROCESSING, FAILED>>,
     <<COMPLETED, PROCESSING>>, <<FAILED, PROCESSING>>}

\* C3: a new module starts PENDING, and a module's processing_status changes
\* only along PENDING->PROCESSING, PROCESSING->COMPLETED, PROCESSING->FAILED,
\* COMPLETED->PROCESSING, FAILED->PROCESSING.
C3_StatusTransitions ==
    [][\A m \in ModuleIds :
          /\ (m \notin DOMAIN modules /\ m \in DOMAIN modules')
                => modules'[m].processing_status = PENDING
          /\ (m \in DOMAIN modules /\ m \in DOMAIN modules')
                => \/ modules'[m].processing_status = modules[m].processing_status
                   \/ <<modules[m].processing_status,
                        modules'[m].processing_status>> \in AllowedTransitions]_vars

\* A run has stored chunks for a module that is still there.
C3_Witness ==
    \E w \in Workers :
        /\ run[w].pc = "done"
        /\ run[w].outcome = "ok"
        /\ run[w].module_id \in DOMAIN modules
        /\ ChunksOf(run[w].module_id) # {}

\* C4: from the start of a run to its end the module's processing_status is
\* PROCESSING.
C4_RunningIsProcessing ==
    \A w \in Workers :
        (run[w].pc = "store" /\ run[w].module_id \in DOMAIN modules)
            => modules[run[w].module_id].processing_status = PROCESSING

\* C5: a run that extracted, chunked and stored without error ends with the
\* module COMPLETED.
C5_CompletedOnSuccess ==
    \A w \in Workers :
        (/\ run[w].pc = "done"
         /\ run[w].outcome = "ok"
         /\ run[w].module_id \in DOMAIN modules)
            => modules[run[w].module_id].processing_status = COMPLETED

\* C6: a run in which extraction, chunking or embedding fails ends with the
\* module FAILED and still present, and no exception leaves the task.
C6_FailedOnError ==
    \A w \in Workers :
        (/\ run[w].pc = "done"
         /\ run[w].outcome \in {"error", "raised"}
         /\ run[w].module_id \in DOMAIN modules)
            => /\ modules[run[w].module_id].processing_status = FAILED
               /\ run[w].outcome # "raised"

\* The stored (chunk_index, chunk_text) pairs of a module, and those of the
\* records a run is about to store.
StoredPairs(m) == {<<c.chunk_index, c.chunk_text>> : c \in ChunksOf(m)}
RunPairs(w) ==
    LET records == ChunkRecords(run[w].module_id, run[w].text)
    IN  {<<records[i].chunk_index, records[i].chunk_text>> : i \in 1..Len(records)}

\* C7: a run that stores for a module whose stored chunks are already those
\* of the same text (no other run being in progress) leaves the module with
\* the same chunk_text sequence: as many rows as one run stores, with the
\* same index and text.
C7_IdempotentRerun ==
    [][\A w \in Workers :
          (/\ run[w].pc = "store"
           /\ \A v \in Workers \ {w} : run[v].pc = "idle"
           /\ run'[w].pc = "done"
           /\ run'[w].outcome = "ok"
           /\ StoredPairs(run[w].module_id) = RunPairs(w)
           /\ Cardinality(ChunksOf(run[w].module_id)) = Cardinality(RunPairs(w)))
             => Cardinality({c \in chunks' : c.module_id = run[w].module_id})
                    = Cardinality(RunPairs(w))]_vars

\* C8: no two runs are in progress for the same module at once.
C8_SingleWriter ==
    \A w1, w2 \in Workers :
        (w1 # w2 /\ run[w1].pc = "store" /\ run[w2].pc = "store")
            => run[w1].module_id # run[w2].module_id

\* C9: the chunks stored for a module have pairwise distinct chunk_index
\* values that are exactly 0..n-1.
C9_ChunkIndexContiguous ==
    \A m \in DOMAIN modules :
        LET S == ChunksOf(m)
        IN  /\ \A c, d \in S : c # d => c.chunk_index # d.chunk_index
            /\ {c.chunk_index : c \in S} = 0..(Cardinality(S) - 1)

\* C10: a successful add_knowledge_module, and a successful
\* update_knowledge_module that changes the content, sends the task for that
\* module.
C10_DispatchOnMutation ==
    [][\A m \in ModuleIds :
          (/\ m \in DOMAIN modules'
           /\ \/ m \notin DOMAIN modules
              \/ modules'[m].content # modules[m].content)
             => m \in queue']_vars

\* The call returned and its arguments satisfy 0 <= overlap < chunk_size.
ValidChunkCallDone ==
    /\ ck.pc = "done"
    /\ 0 <= ck.overlap
    /\ ck.overlap < ck.chunk_size

\* The windows from the i-th on, each after the first without its first
\* `overlap` tokens, concatenated.
RECURSIVE Reassemble(_, _, _)
Reassemble(windows, i, overlap) ==
    IF i > Len(windows) THEN <<>>
    ELSE (IF i = 1 THEN windows[i].tokens
          ELSE SubSeq(windows[i].tokens, overlap + 1, Len(windows[i].tokens)))
         \o Reassemble(windows, i + 1, overlap)

\* C11: for every token sequence and every chunk_size and overlap with
\* 0 <= overlap < chunk_size, the token windows of chunk_text, each after the
\* first stripped of the overlap tokens it shares with the one before,
\* concatenate to the original token sequence.
C11_RoundTrip ==
    ValidChunkCallDone => Reassemble(ck.chunks, 1, ck.overlap) = ck.tokens

\* A call with a positive overlap that returned three windows or more.
C11_Witness ==
    /\ ValidChunkCallDone
    /\ ck.overlap >= 1
    /\ Len(ck.chunks) >= 3

\* C12: chunk_text terminates for every text, chunk_size and overlap: every
\* iteration of its loop moves the window start forward (a call with
\* overlap >= chunk_size, which cannot, is rejected before the loop).
C12_ForwardProgress ==
    [][(ck.pc = "loop" /\ ck'.pc = "loop" /\ ck' # ck)
          => ck'.start > ck.start]_vars

\* C13: in the sources build_context returns, a chunk of a higher-priority
\* module comes before every chunk of a lower-priority module, and chunks of
\* equal priority come in descending similarity to the query.
C13_PriorityFirst ==
    result.op = "build_context" =>
        \A i, j \in 1..Len(result.sources) :
            i < j =>
                LET ci == result.sources[i]
                    cj == result.sources[j]
                    pi == modules[ci.module_id].priority
                    pj == modules[cj.module_id].priority
                IN  \/ pi > pj
                    \/ /\ pi = pj
                       /\ Similarity(result.query, ci.chunk_text)
                            >= Similarity(result.query, cj.chunk_text)

\* C14: for a persona with no active module, or with no chunk in its active
\* modules, build_context returns the empty context, no sources and the
\* persona's system prompt, and raises no error.
C14_EmptyContext ==
    (/\ result.op = "build_context"
     /\ \A c \in chunks : c.module_id \notin get_by_persona(result.persona))
        => /\ result.outcome = "returned"
           /\ result.context = <<>>
           /\ result.sources = <<>>
           /\ result.system_prompt = build_system_prompt(result.persona)

\* C15: after a run of the task that failed, retrieval for the module's
\* persona returns no chunk of that module (a failed re-ingestion included),
\* and the module is still there.
C15_FailedRunLeavesNoChunks ==
    \A w \in Workers :
        (/\ run[w].pc = "done"
         /\ run[w].outcome \in {"error", "raised"}
         /\ Exists(run[w].module_id))
            => LET m == run[w].module_id
               IN  \A q \in Queries :
                     \A rows \in asimilarity_search(
                                    q, CONTEXT_TOP_K,
                                    get_by_persona(modules[m].persona_id)) :
                        \A i \in 1..Len(rows) : rows[i].module_id # m

\* C16: a run that succeeds on a qna module holding one complete pair (q, a)
\* leaves the module COMPLETED with exactly one chunk, whose text is
\* "Q: q\nA: a".
C16_QnaSinglePair ==
    \A w \in Workers :
        (/\ run[w].pc = "done"
         /\ run[w].outcome = "ok"
         /\ Exists(run[w].module_id)
         /\ modules[run[w].module_id].module_type = "qna"
         /\ modules[run[w].module_id].content.pairs = <<Pair1>>)
            => LET m == run[w].module_id
               IN  /\ modules[m].processing_status = COMPLETED
                   /\ Cardinality(ChunksOf(m)) = 1
                   /\ \A c \in ChunksOf(m) :
                        c.chunk_text = <<QPrefix>> \o Pair1.q \o <<ASep>> \o Pair1.a

\* C17: a mutation request of an authenticated caller who does not own the
\* persona it touches is answered with the access-denied error (which is not
\* the answer for a persona or module that is not found) and changes neither
\* the modules nor the chunks.
C17_NonOwnerRejected ==
    [][(/\ resp'.user \in Users
        /\ resp'.owner \in Users
        /\ resp'.owner # resp'.user)
          => /\ resp'.outcome = "PermissionError: Access denied"
             /\ resp'.outcome \notin {"ValueError: Persona not found",
                                      "ValueError: Module not found", "False"}
             /\ UNCHANGED <<modules, deleted, chunks>>]_vars

\* The owner of persona B asked for the deletion of a module of persona A
\* that holds a chunk, and was denied.
C17_Witness ==
    /\ resp.op = "delete"
    /\ resp.outcome = "PermissionError: Access denied"
    /\ \E c \in chunks : /\ c.module_id \in DOMAIN modules
                         /\ PersonaOwner(modules[c.module_id].persona_id) # resp.user

\* C18: get_embedding_model constructs the model at most once in a process
\* and every caller gets that one instance, concurrent first calls included.
C18_SingleInstance ==
    /\ emb.built <= 1
    /\ \A t, u \in Callers :
          (emb.got[t] # 0 /\ emb.got[u] # 0) => emb.got[t] = emb.got[u]

\* The stride of the call and the properties of its windows one by one: the
\* i-th window starts at (i-1)*stride, its token_count is the number of
\* tokens from there to the window's end, and every window but the last
\* holds chunk_size tokens.
Stride == ck.chunk_size - ck.overlap
WindowsWellFormed ==
    \A i \in 1..Len(ck.chunks) :
        LET w == ck.chunks[i]
        IN  /\ w.start = (i - 1) * Stride
            /\ w.token_count
                 = Min(w.start + ck.chunk_size, Len(ck.tokens)) - w.start
            /\ w.page_content
                 = Decode(SubSeq(ck.tokens, w.start + 1,
                                 Min(w.start + ck.chunk_size, Len(ck.tokens))))
            /\ (i < Len(ck.chunks) => w.token_count = ck.chunk_size)

\* C19: chunk_text emits one window for every start position 0, s, 2s, ...
\* (s = chunk_size - overlap) that lies before the end of the token stream;
\* every window but the last holds chunk_size tokens and each token_count is
\* the length of its window.
C19_WindowPerStart ==
    ValidChunkCallDone =>
        /\ WindowsWellFormed
        /\ Len(ck.chunks)
             = Cardinality({k \in 0..Len(ck.tokens) : k * Stride < Len(ck.tokens)})

\* C19 as the code has it: the windows start at 0, s, 2s, ... and the first
\* window that reaches the end of the token stream is the last one; every
\* window but the last holds chunk_size tokens and each token_count is the
\* length of its window.
C19_WindowsUntilEndReached ==
    ValidChunkCallDone =>
        /\ WindowsWellFormed
        /\ Len(ck.chunks)
             = Cardinality({k \in 0..Len(ck.tokens) :
                              /\ k * Stride < Len(ck.tokens)
                              /\ \/ k = 0
                                 \/ (k - 1) * Stride + ck.chunk_size
                                      < Len(ck.tokens)})

\* A call with a positive overlap that returned two windows or more, the
\* last of them reaching the end of the stream from a start that leaves
\* another start position before the end.
C19_Witness ==
    /\ ValidChunkCallDone
    /\ ck.overlap >= 1
    /\ Len(ck.chunks) >= 2
    /\ ck.chunks[Len(ck.chunks)].start + Stride < Len(ck.tokens)

\* C20: the chunks build_context includes are a prefix of the candidates in
\* the order the search returned them: whole chunks, ending before the first
\* candidate that would take the total over the budget, with nothing after
\* that candidate tried.
C20_PrefixOfCandidates ==
    (result.op = "build_context" /\ result.outcome = "returned") =>
        LET n == Len(result.sources)
        IN  /\ n <= Len(result.candidates)
            /\ result.sources = SubSeq(result.candidates, 1, n)
            /\ n < Len(result.candidates) =>
                 SumTokens(result.sources)
                   + result.candidates[n + 1].token_count > result.budget

\* The loop stopped at a candidate over the budget although a later
\* candidate would still have fitted.
C20_Witness ==
    /\ result.op = "build_context"
    /\ result.outcome = "returned"
    /\ \E j \in (Len(result.sources) + 2)..Len(result.candidates) :
          SumTokens(result.sources) + result.candidates[j].token_count
             <= result.budget

\* C21: a run on a url_source module whose content already holds
\* scraped_content fetches nothing and goes on to chunk the cached text, like
\* any successful extraction.
C21_CachedScrapeReused ==
    [][\A w \in Workers, m \in ModuleIds, f \in FetchOutcomes :
          (/\ Exists(m)
           /\ modules[m].module_type = "url_source"
           /\ modules[m].content.hasScraped
           /\ TaskBegin(w, m, f))
             => run'[w].pc = "store"]_vars

\* C22: when a url_source run has fetched the URL, the scraped text (and its
\* timestamp) is stored on the module's content before chunking starts.
C22_ScrapeStoredBeforeChunking ==
    [][\A w \in Workers, m \in ModuleIds, f \in FetchOutcomes :
          (/\ Exists(m)
           /\ modules[m].module_type = "url_source"
           /\ ~modules[m].content.hasScraped
           /\ TaskBegin(w, m, f)
           /\ run'[w].pc = "store")
             => /\ Exists(m)'
                /\ modules'[m].content.hasScraped]_vars

\* The pairs that hold both a question and an answer.
IsCompletePair(pair) == pair.hasQ /\ pair.hasA

\* C23: for a qna module only the pairs with both a question and an answer
\* become text units, one each; a pair lacking either gives none, and the
\* run goes on with the units of the complete pairs.
C23_IncompletePairsSkipped ==
    [][\A w \in Workers, m \in ModuleIds, f \in FetchOutcomes :
          (/\ Exists(m)
           /\ modules[m].module_type = "qna"
           /\ TaskBegin(w, m, f))
             => LET complete == SelectSeq(modules[m].content.pairs, IsCompletePair)
                IN  IF complete = <<>>
                    THEN run'[w].pc = "done"
                    ELSE /\ run'[w].pc = "store"
                         /\ run'[w].text = JoinDocs(QnaDocs(complete))]_vars

\* C24: load_document on a key whose extension is none of pdf, doc, docx,
\* csv, xls, xlsx ends with the unsupported-type error, having obtained no
\* storage client, created no temporary file and attempted no download.
C24_UnsupportedFailsFast ==
    (/\ doc.pc \notin {"idle", "check"}
     /\ Lower(Suffix(doc.key)) \notin SupportedExtensions)
        => /\ doc.pc = "done"
           /\ doc.outcome = "ValueError: Unsupported file type"
           /\ ~doc.client
           /\ doc.temp = "none"
           /\ doc.downloads = 0

\* A call with an unsupported extension ended, in a process whose storage
\* client an earlier call had built.
C24_Witness ==
    /\ doc.pc = "done"
    /\ Lower(Suffix(doc.key)) \notin SupportedExtensions
    /\ doc.s3 = "S3Client"

\* C25: once load_document has returned or raised for a supported
\* extension, the temporary file of download_to_temp does not exist, whether
\* the download failed, the loader failed or the documents were returned.
C25_TempFileRemoved ==
    (doc.pc = "done" /\ Lower(Suffix(doc.key)) \in SupportedExtensions)
        => doc.temp = "removed"

\* A call that created the file and downloaded into it ended with the
\* loader's failure.
C25_Witness ==
    /\ doc.pc = "done"
    /\ doc.downloads = 1
    /\ doc.outcome = "Exception: Error loading file"
    /\ doc.temp = "removed"

\* C26: a module whose run was abandoned can be run again through the task,
\* and the run that follows ends with the module COMPLETED or FAILED; no
\* task message is produced for it by anything but a caller.
C26_RerunAfterAbandonEnds ==
    /\ queue = {}
    /\ \A w \in Workers :
          (/\ run[w].pc = "done"
           /\ run[w].module_id \in abandoned
           /\ Exists(run[w].module_id))
             => modules[run[w].module_id].processing_status
                  \in {COMPLETED, FAILED}

\* The requests of ip handed to the application at the clock values lo..hi.
RECURSIVE PassedIn(_, _, _)
PassedIn(ip, lo, hi) ==
    IF lo > hi THEN 0
    ELSE (IF lo >= 0 THEN sec.passed[ip][lo] ELSE 0) + PassedIn(ip, lo + 1, hi)

\* C27: with rate limiting enabled, no IP has more than rate_limit_requests
\* timestamps kept, and in no span of rate_limit_window clock values (after
\* t - window, up to t) were more than rate_limit_requests requests of one IP
\* handed to the application.
C27_RateLimitWindow ==
    sec.enable_rate_limiting =>
        \A ip \in ClientIPs :
            /\ Len(sec.request_counts[ip]) <= sec.rate_limit_requests
            /\ \A t \in 0..sec.now :
                  PassedIn(ip, t - sec.rate_limit_window + 1, t)
                     <= sec.rate_limit_requests

\* A request was rejected with 429 after requests of the same IP had passed
\* both before and after the window moved on.
C27_Witness ==
    /\ sec.enable_rate_limiting
    /\ sec.last.status = "429"
    /\ sec.now >= 1
    /\ sec.passed[sec.last.ip][0] >= 1
    /\ sec.passed[sec.last.ip][sec.now] >= 1

\* C28: a request from an IP in the blocked set is answered 403, is not
\* handed to the application and changes no table; an IP leaves the blocked
\* set only by unblock_ip for that IP.
C28_BlockedStaysBlocked ==
    [][\A ip \in ClientIPs :
          ip \in sec.blocked_ips =>
             /\ \A path \in Paths :
                   dispatch(ip, path) =>
                      /\ sec'.last.status = "403"
                      /\ sec'.request_counts = sec.request_counts
                      /\ sec'.suspicious_ips = sec.suspicious_ips
                      /\ sec'.blocked_ips = sec.blocked_ips
                      /\ sec'.passed = sec.passed
             /\ ip \notin sec'.blocked_ips => unblock_ip(ip)]_vars

\* A blocked IP was answered 403 while the other IP is not blocked.
C28_Witness ==
    /\ sec.last.op = "dispatch"
    /\ sec.last.status = "403"
    /\ sec.blocked_ips = {sec.last.ip}

\* The blocked set holds exactly the IPs whose count reached the threshold.
BlockedIffThreshold ==
    \A ip \in ClientIPs :
        ip \in sec.blocked_ips
           <=> sec.suspicious_ips[ip] >= sec.suspicious_threshold

\* C29: an IP is blocked exactly when its suspicious-activity count is at
\* least suspicious_threshold; every 404 (blocked path, scanner) and every
\* 429 adds one to the count of its IP, and unblock_ip of a blocked IP takes
\* it out of the set and puts its count back to zero.
C29_BlockedIffThreshold ==
    [][/\ BlockedIffThreshold
       /\ BlockedIffThreshold'
       /\ \A ip \in ClientIPs :
             /\ \A path \in Paths :
                   (sec'.last.status \in {"404", "429"} /\ dispatch(ip, path))
                      => sec'.suspicious_ips[ip] = sec.suspicious_ips[ip] + 1
             /\ (ip \in sec.blocked_ips /\ unblock_ip(ip))
                   => /\ ip \notin sec'.blocked_ips
                      /\ sec'.suspicious_ips[ip] = 0]_vars

\* An IP with a threshold of two was blocked by a rate-limit rejection.
C29_Witness ==
    /\ sec.suspicious_threshold >= 2
    /\ sec.last.status = "429"
    /\ sec.last.ip \in sec.blocked_ips

\* C30: between invocations a worker holds no session, and an invocation
\* works on a session it opened itself (never one that was closed), whichever
\* way the invocation before it ended.
C30_SessionClosedAndCleared ==
    \A w \in Workers :
        /\ run[w].pc = "idle" => run[w].session = "None"
        /\ run[w].pc # "idle" => run[w].session = "open"

\* After runs that stored chunks and returned, one worker's run met the
\* module-not-found return and the other's raised, each on its own session.
C30_Witness ==
    \E w, v \in Workers :
        /\ w # v
        /\ run[w].pc = "done" /\ run[w].outcome = "error"
        /\ run[w].session = "open"
        /\ run[v].pc = "done" /\ run[v].outcome = "raised"
        /\ run[v].session = "open"
        /\ chunks # {}

=============================================================================
